---- MODULE Spec2Model ----
(***************************************************************************)
(* GHArchive parallel downloader (download_archive.py).                    *)
(*                                                                         *)
(* The model follows the source: DownloadStats (a lock, a cumulative byte  *)
(* count and two bounded deques), generate_urls, download_file (existence  *)
(* short-circuit, retry loop with exponential backoff, streaming write)    *)
(* and download_archives (thread pool, as_completed tally, the speed       *)
(* thread and the final statistics).                                       *)
(*                                                                         *)
(* Time is counted in ticks; an hour is Resolution ticks.  A worker thread *)
(* of the pool is a number in Workers; a URL is the pair <<day, hour of    *)
(* day>> that the f-string of generate_urls formats into the path, and the *)
(* file name is that pair (os.path.basename of the URL's path).            *)
(***************************************************************************)
EXTENDS Integers, Sequences, FiniteSets, TLC

\* ------------------------------------------------------------- bounds
\* Threads the pool may own (max_workers is drawn from 1..MaxWorkers).
MaxWorkers == 2
\* Instants (in ticks) start_dt and end_dt are drawn from.
MaxInstant == 3
\* Ticks in one hour.
Resolution == 2
\* Chunks iter_content yields at most in one response.
MaxChunks == 1
\* Largest chunk length (0 is the empty chunk the code skips).
MaxChunkSize == 1
\* Largest value of the clock time.time() reads.
MaxTime == 1
\* Largest max_retries a direct caller of download_file passes.
MaxRetriesArg == 4
\* Runs of the program against the same output directory.
MaxRuns == 2
\* Ticks before and after a midnight that a direct call of generate_urls
\* draws start_dt and end_dt from.
GenSpan == 4
\* Calls of add_bytes the threads that use a DownloadStats object directly make.
MaxCalls == 12

\* ------------------------------------------------- program constants
\* download_file(url, output_path, stats, max_retries=3)
DefaultMaxRetries == 3
\* deque(maxlen=10)
WindowSize == 10
\* (1024 * 1024): bytes in one MiB
MiB == 1048576
\* timedelta(hours=1), strftime('%Y-%m-%d') / current.hour: hours in a day
HoursPerDay == 24

VARIABLES
    max_retries,      \* download_file's max_retries argument
    max_workers,      \* download_archives' max_workers argument
    urls,             \* the list of (url, current) pairs generate_urls returned
    gen,              \* the frame of a generate_urls call (NoCall when none is open)
    files,            \* the output directory: file name -> NoFile or the chunks written
    dir_exists,       \* whether output_path exists
    initial_files,    \* the output directory as the run found it
    lock,             \* stats.lock: 0 when free, else the thread holding it
    bytes_downloaded, \* stats.bytes_downloaded
    recent_bytes,     \* stats.recent_bytes
    recent_times,     \* stats.recent_times
    start_time,       \* stats.start_time
    now,              \* the clock
    frame,            \* per pool thread: the frame of its download_file call
    added,            \* sum of the arguments passed to stats.add_bytes so far
    recorded,         \* the (bytes_count, current_time) pairs add_bytes has appended
    result,           \* per item: the future's result (NoResult until it is done)
    queue,            \* the executor's work queue (indices in urls)
    mpc,              \* the main thread: where it is in download_archives
    submitted,        \* futures created so far
    yielded,          \* futures as_completed has yielded
    tallied,          \* per item: times its result was counted
    successful,       \* download_archives' successful
    failed,           \* download_archives' failed
    pbar_n,           \* pbar.n
    pbar_closed,      \* the tqdm bar has been closed
    postfix,          \* whether the bar shows a postfix
    rpc,              \* the speed thread: where it is in update_speed
    speed,            \* update_speed's speed
    summary,          \* the final statistics printed (NoSummary until then)
    run               \* which run of the program against the directory this is

arg_vars == <<max_retries, max_workers, urls, gen, initial_files>>
fs_vars == <<files, dir_exists>>
stats_vars == <<lock, bytes_downloaded, recent_bytes, recent_times, start_time, now>>
pool_vars == <<result, queue>>
main_vars == <<mpc, submitted, yielded, tallied, successful, failed, pbar_n,
               pbar_closed, summary, run>>
reporter_vars == <<postfix, rpc, speed>>
vars == <<arg_vars, fs_vars, stats_vars, frame, added, recorded, pool_vars, main_vars,
          reporter_vars>>

Workers == 1..MaxWorkers
\* The main thread and the speed thread, as lock holders.
MainThread == MaxWorkers + 1
SpeedThread == MaxWorkers + 2

\* No file at the path (no chunk has length -1).
NoFile == <<-1>>
\* A future that is not done yet.
NoResult == <<>>
\* What a Python function returns when it falls off its end.
None == <<"None">>
\* Nothing printed yet.
NoSummary == <<>>
\* No call of generate_urls is open: it has returned and its frame is gone.
NoCall == [pc |-> "none", start_dt |-> 0, end_dt |-> 0]

Min(a, b) == IF a < b THEN a ELSE b

RECURSIVE Sum(_)
Sum(s) == IF s = <<>> THEN 0 ELSE Head(s) + Sum(Tail(s))

RECURSIVE Pow2(_)
Pow2(n) == IF n = 0 THEN 1 ELSE 2 * Pow2(n - 1)

\* ------------------------------------------------------ generate_urls
\* (mutant) the start is taken as it is
TruncateNot(t) == t

\* start_dt.replace(minute=0, second=0, microsecond=0)
TruncateToHour(t) == t - (t % Resolution)

\* f"https://data.gharchive.org/{current.strftime('%Y-%m-%d')}-{current.hour}.json.gz"
UrlOf(current) ==
    LET h == current \div Resolution IN <<h \div HoursPerDay, h % HoursPerDay>>

RECURSIVE UrlsFrom(_, _)
UrlsFrom(current, end_dt) ==
    IF current <= end_dt
    THEN <<<<UrlOf(current), current>>>> \o UrlsFrom(current + Resolution, end_dt)
    ELSE <<>>

generate_urls(start_dt, end_dt) == UrlsFrom(TruncateToHour(start_dt), end_dt)

\* os.path.basename(urlparse(url).path)
Filename(url) == url

Filenames == {UrlOf(t) : t \in 0..MaxInstant}
Items == 1..Len(urls)
\* for url, _ in urls: the url of the i-th pair
Url(i) == urls[i][1]

FileOf(i) == Filename(Url(i))

\* ------------------------------------------------------ DownloadStats
\* (mutant) a plain list: nothing is ever evicted
DequeUnbounded(d, x) == Append(d, x)

\* deque(maxlen=10).append
DequeAppend(d, x) ==
    IF Len(d) < WindowSize THEN Append(d, x) ELSE Append(Tail(d), x)

\* (mutant) a lock that never makes anybody wait
LockIgnored(l) == TRUE

\* threading.Lock: acquire succeeds when nobody holds it
LockFree(l) == l = 0

\* time.time(): the clock never goes back
ClockReadings == now..Min(now + 1, MaxTime)

\* A quotient a / b of the floats the code computes is kept as the pair <<a, b>>.
Zero == <<0, 1>>

\* (mutant) the speed is taken from the cumulative total
get_speed_cumulative ==
    IF Len(recent_times) < 2
    THEN Zero
    ELSE LET time_span == recent_times[Len(recent_times)] - recent_times[1]
         IN IF time_span > 0 THEN <<bytes_downloaded, time_span * MiB>> ELSE Zero

\* lines 46-55, in MiB/s: (total_bytes / time_span) / (1024 * 1024)
get_speed ==
    IF Len(recent_times) < 2
    THEN Zero
    ELSE LET total_bytes == Sum(recent_bytes)
             time_span == recent_times[Len(recent_times)] - recent_times[1]
         IN IF time_span > 0 THEN <<total_bytes, time_span * MiB>> ELSE Zero

\* line 60, in MiB: self.bytes_downloaded / (1024 * 1024)
get_total_downloaded == <<bytes_downloaded, MiB>>

\* ------------------------------------------------------ download_file
\* The frame of a pool thread: where it is (pc), the item it was called for,
\* download_file's and add_bytes' locals (e is the exception an except clause
\* has bound), the requests.get calls and time.sleep durations of the call so
\* far, and the value being returned.
IdleFrame ==
    [pc |-> "idle", item |-> 0, attempt |-> 0, downloaded_size |-> 0, nchunks |-> 0,
     bytes_count |-> 0, loaded |-> 0, current_time |-> 0, e |-> "", gets |-> 0,
     sleeps |-> <<>>, ret |-> NoResult]

CallFrame(i) == [IdleFrame EXCEPT !.pc = "exists", !.item = i]

\* The result tuples (url, success, message, size); the message is its kind.
AlreadyExists(i) == <<Url(i), TRUE, "Already exists", 0>>
Downloaded(i, size) == <<Url(i), TRUE, "Downloaded", size>>
FailedAfter(i) == <<Url(i), FALSE, "Failed after attempts", 0>>
ErrorDownloading(i) == <<Url(i), FALSE, "Error downloading", 0>>

\* for attempt in range(max_retries): the next iteration, or the end of the function
ForAttempt(a) == IF a < max_retries THEN "get" ELSE "fall_off"

\* (mutant) the last attempt is taken to be the one after the last
LastAttemptOffByOne(a) == a = max_retries

\* line 128: if attempt == max_retries - 1
LastAttempt(a) == a = max_retries - 1

\* (mutant) a backoff that grows linearly
BackoffLinear(a) == a + 1

\* line 130: time.sleep(2 ** attempt)
Backoff(a) == Pow2(a)

\* a return statement: the frame holds the value until the caller has it
Returning(f, res) == [f EXCEPT !.pc = "return", !.ret = res]

\* lines 127-130: except requests.exceptions.RequestException as e
ExceptRequestException(f) ==
    IF LastAttempt(f.attempt)
    THEN Returning(f, FailedAfter(f.item))
    ELSE [f EXCEPT !.pc = "sleep", !.sleeps = Append(@, Backoff(f.attempt))]

\* lines 131-132: except Exception as e
ExceptException(f) == Returning(f, ErrorDownloading(f.item))

\* (mutant) no except clause: the exception leaves download_file
RaiseUncaught(f, exc) == [f EXCEPT !.e = exc, !.pc = "raised"]

\* (mutant) every exception is handled by the clause that retries
RaiseRetryAll(f, exc) == ExceptRequestException([f EXCEPT !.e = exc])

\* lines 106-132: an exception of class exc is raised inside the try block; the
\* first except clause takes the subclasses of RequestException
Raise(f, exc) ==
    IF exc = "RequestException"
    THEN ExceptRequestException([f EXCEPT !.e = exc])
    ELSE ExceptException([f EXCEPT !.e = exc])

\* (mutant) the existence check never finds the file
CheckExistsNever(w) ==
    /\ frame[w].pc = "exists"
    /\ frame' = [frame EXCEPT ![w].attempt = 0, ![w].pc = ForAttempt(0)]
    /\ UNCHANGED <<arg_vars, fs_vars, stats_vars, added, recorded, pool_vars, main_vars,
                   reporter_vars>>

\* lines 98-105: the existence check, then the first pass of the for statement
CheckExists(w) ==
    /\ frame[w].pc = "exists"
    /\ frame' = [frame EXCEPT ![w] =
                    IF files[FileOf(@.item)] # NoFile
                    THEN Returning(@, AlreadyExists(@.item))
                    ELSE [@ EXCEPT !.attempt = 0, !.pc = ForAttempt(0)]]
    /\ UNCHANGED <<arg_vars, fs_vars, stats_vars, added, recorded, pool_vars, main_vars,
                   reporter_vars>>

\* the for loop ran zero times: the function ends without a return statement
FallOffEnd(w) ==
    /\ frame[w].pc = "fall_off"
    /\ frame' = [frame EXCEPT ![w] = Returning(@, None)]
    /\ UNCHANGED <<arg_vars, fs_vars, stats_vars, added, recorded, pool_vars, main_vars,
                   reporter_vars>>

\* lines 107-108: requests.get and raise_for_status
Get(w) ==
    /\ frame[w].pc = "get"
    /\ \E ok \in BOOLEAN :
          LET f == [frame[w] EXCEPT !.gets = @ + 1]
          IN frame' = [frame EXCEPT ![w] =
                          IF ok THEN [f EXCEPT !.pc = "makedirs"]
                          ELSE Raise(f, "RequestException")]
    /\ UNCHANGED <<arg_vars, fs_vars, stats_vars, added, recorded, pool_vars, main_vars,
                   reporter_vars>>

\* (mutant) os.makedirs without exist_ok: an existing directory is an error
MakedirsExclusive(w) ==
    /\ frame[w].pc = "makedirs"
    /\ IF dir_exists
       THEN /\ frame' = [frame EXCEPT ![w] = Raise(@, "OSError")]
            /\ UNCHANGED dir_exists
       ELSE /\ dir_exists' = TRUE
            /\ frame' = [frame EXCEPT ![w].pc = "open"]
    /\ UNCHANGED <<arg_vars, files, stats_vars, added, recorded, pool_vars, main_vars,
                   reporter_vars>>

\* line 111: os.makedirs(output_path, exist_ok=True)
Makedirs(w) ==
    /\ frame[w].pc = "makedirs"
    /\ \E ok \in BOOLEAN :
          IF ok \/ dir_exists
          THEN /\ dir_exists' = TRUE
               /\ frame' = [frame EXCEPT ![w].pc = "open"]
          ELSE /\ frame' = [frame EXCEPT ![w] = Raise(@, "OSError")]
               /\ UNCHANGED dir_exists
    /\ UNCHANGED <<arg_vars, files, stats_vars, added, recorded, pool_vars, main_vars,
                   reporter_vars>>

\* (mutant) the file is opened for appending: what is there stays
OpenAppend(w) ==
    /\ frame[w].pc = "open"
    /\ \E ok \in BOOLEAN :
          IF ok
          THEN /\ files' = [files EXCEPT ![FileOf(frame[w].item)] =
                                IF @ = NoFile THEN <<>> ELSE @]
               /\ frame' = [frame EXCEPT ![w].downloaded_size = 0,
                                         ![w].nchunks = 0,
                                         ![w].pc = "stream"]
          ELSE /\ frame' = [frame EXCEPT ![w] = Raise(@, "OSError")]
               /\ UNCHANGED files
    /\ UNCHANGED <<arg_vars, dir_exists, stats_vars, added, recorded, pool_vars,
                   main_vars, reporter_vars>>

\* lines 114-117: downloaded_size = 0; open(filepath, 'wb')
Open(w) ==
    /\ frame[w].pc = "open"
    /\ \E ok \in BOOLEAN :
          IF ok
          THEN /\ files' = [files EXCEPT ![FileOf(frame[w].item)] = <<>>]
               /\ frame' = [frame EXCEPT ![w].downloaded_size = 0,
                                         ![w].nchunks = 0,
                                         ![w].pc = "stream"]
          ELSE /\ frame' = [frame EXCEPT ![w] = Raise(@, "OSError")]
               /\ UNCHANGED files
    /\ UNCHANGED <<arg_vars, dir_exists, stats_vars, added, recorded, pool_vars, main_vars,
                   reporter_vars>>

\* lines 118-123: the next chunk of response.iter_content is written to the
\* file, counted and passed to stats.add_bytes; an empty chunk is skipped
StreamChunk(w) ==
    /\ frame[w].pc = "stream"
    /\ frame[w].nchunks < MaxChunks
    /\ \E c \in 0..MaxChunkSize :
          IF c # 0
          THEN /\ files' = [files EXCEPT ![FileOf(frame[w].item)] = Append(@, c)]
               /\ frame' = [frame EXCEPT ![w].nchunks = @ + 1,
                                         ![w].downloaded_size = @ + c,
                                         ![w].bytes_count = c,
                                         ![w].pc = "add_bytes"]
               /\ added' = added + c
          ELSE /\ frame' = [frame EXCEPT ![w].nchunks = @ + 1]
               /\ UNCHANGED <<files, added>>
    /\ UNCHANGED <<arg_vars, dir_exists, stats_vars, recorded, pool_vars, main_vars,
                   reporter_vars>>

\* (mutant) a failed transfer removes the file it was writing
StreamEndCleanup(w) ==
    /\ frame[w].pc = "stream"
    /\ \E ev \in {"end", "RequestException", "OSError"} :
          IF ev = "end"
          THEN /\ frame' = [frame EXCEPT ![w] =
                                Returning(@, Downloaded(@.item, @.downloaded_size))]
               /\ UNCHANGED files
          ELSE /\ frame' = [frame EXCEPT ![w] = Raise(@, ev)]
               /\ files' = [files EXCEPT ![FileOf(frame[w].item)] = NoFile]
    /\ UNCHANGED <<arg_vars, dir_exists, stats_vars, added, recorded, pool_vars,
                   main_vars, reporter_vars>>

\* lines 118-132: the loop over the chunks ends: the body is complete (line
\* 125), reading it raises a transport error, or writing it raises an OSError
StreamEnd(w) ==
    /\ frame[w].pc = "stream"
    /\ \E ev \in {"end", "RequestException", "OSError"} :
          frame' = [frame EXCEPT ![w] =
                       IF ev = "end"
                       THEN Returning(@, Downloaded(@.item, @.downloaded_size))
                       ELSE Raise(@, ev)]
    /\ UNCHANGED <<arg_vars, fs_vars, stats_vars, added, recorded, pool_vars, main_vars,
                   reporter_vars>>

\* line 130: the backoff sleep ends and the for statement takes the next attempt
Sleep(w) ==
    /\ frame[w].pc = "sleep"
    /\ frame' = [frame EXCEPT ![w].e = "",
                              ![w].attempt = @ + 1,
                              ![w].pc = ForAttempt(frame[w].attempt + 1)]
    /\ UNCHANGED <<arg_vars, fs_vars, stats_vars, added, recorded, pool_vars, main_vars,
                   reporter_vars>>

\* the call returns: the future's result is set, the frame is gone and the
\* thread is free for the next work item
Deliver(w) ==
    /\ frame[w].pc = "return"
    /\ result' = [result EXCEPT ![frame[w].item] = frame[w].ret]
    /\ frame' = [frame EXCEPT ![w] = IdleFrame]
    /\ UNCHANGED <<arg_vars, fs_vars, stats_vars, added, recorded, queue, main_vars,
                   reporter_vars>>

\* ------------------------------------------- DownloadStats.add_bytes
\* line 37 and the read of line 38: with self.lock; load self.bytes_downloaded
AddBytesAcquire(w) ==
    /\ frame[w].pc = "add_bytes"
    /\ LockFree(lock)
    /\ lock' = w
    /\ frame' = [frame EXCEPT ![w].loaded = bytes_downloaded, ![w].pc = "ab_store"]
    /\ UNCHANGED <<arg_vars, fs_vars, bytes_downloaded, recent_bytes, recent_times,
                   start_time, now, added, recorded, pool_vars, main_vars, reporter_vars>>

\* the store of line 38, and line 39: current_time = time.time()
AddBytesStore(w) ==
    /\ frame[w].pc = "ab_store"
    /\ bytes_downloaded' = frame[w].loaded + frame[w].bytes_count
    /\ \E t \in ClockReadings :
          /\ now' = t
          /\ frame' = [frame EXCEPT ![w].current_time = t, ![w].pc = "ab_bytes"]
    /\ UNCHANGED <<arg_vars, fs_vars, lock, recent_bytes, recent_times, start_time,
                   added, recorded, pool_vars, main_vars, reporter_vars>>

\* line 40: self.recent_bytes.append(bytes_count)
AddBytesAppendBytes(w) ==
    /\ frame[w].pc = "ab_bytes"
    /\ recent_bytes' = DequeAppend(recent_bytes, frame[w].bytes_count)
    /\ frame' = [frame EXCEPT ![w].pc = "ab_times"]
    /\ UNCHANGED <<arg_vars, fs_vars, lock, bytes_downloaded, recent_times,
                   start_time, now, added, recorded, pool_vars, main_vars, reporter_vars>>

\* (mutant) the lock is acquired without a with block and never released
AddBytesNoRelease(w) ==
    /\ frame[w].pc = "ab_times"
    /\ recent_times' = DequeAppend(recent_times, frame[w].current_time)
    /\ recorded' = Append(recorded, <<frame[w].bytes_count, frame[w].current_time>>)
    /\ frame' = [frame EXCEPT ![w].bytes_count = 0, ![w].loaded = 0,
                              ![w].current_time = 0, ![w].pc = "stream"]
    /\ UNCHANGED <<arg_vars, fs_vars, lock, bytes_downloaded, recent_bytes,
                   start_time, now, added, pool_vars, main_vars, reporter_vars>>

\* line 41 and the end of the with block: the time is appended, the lock
\* released, add_bytes returns to the loop over the chunks
AddBytesAppendTimes(w) ==
    /\ frame[w].pc = "ab_times"
    /\ recent_times' = DequeAppend(recent_times, frame[w].current_time)
    /\ recorded' = Append(recorded, <<frame[w].bytes_count, frame[w].current_time>>)
    /\ lock' = 0
    /\ frame' = [frame EXCEPT ![w].bytes_count = 0, ![w].loaded = 0,
                              ![w].current_time = 0, ![w].pc = "stream"]
    /\ UNCHANGED <<arg_vars, fs_vars, bytes_downloaded, recent_bytes, start_time,
                   now, added, pool_vars, main_vars, reporter_vars>>

\* ------------------------------------------------------ the thread pool
\* (mutant) a pool that starts a thread for every work item
TakeUnbounded(w) ==
    /\ frame[w].pc = "idle"
    /\ \A v \in 1..(w - 1) : frame[v].pc # "idle"
    /\ queue # <<>>
    /\ frame' = [frame EXCEPT ![w] = CallFrame(Head(queue))]
    /\ queue' = Tail(queue)
    /\ UNCHANGED <<arg_vars, fs_vars, stats_vars, added, recorded, result, main_vars,
                   reporter_vars>>

\* A pool thread takes the next work item of the queue and calls download_file.
\* The pool's threads are interchangeable: the idle one of lowest number stands
\* for whichever takes the item.
Take(w) ==
    /\ frame[w].pc = "idle"
    /\ w <= max_workers
    /\ \A v \in 1..(w - 1) : frame[v].pc # "idle"
    /\ queue # <<>>
    /\ frame' = [frame EXCEPT ![w] = CallFrame(Head(queue))]
    /\ queue' = Tail(queue)
    /\ UNCHANGED <<arg_vars, fs_vars, stats_vars, added, recorded, result, main_vars,
                   reporter_vars>>

\* ------------------------------------------------------ download_archives
\* lines 145-158: the empty list returns at once; else the counters and the
\* DownloadStats object are created
Start ==
    /\ mpc = "start"
    /\ IF urls = <<>>
       THEN /\ mpc' = "no_archives"
            /\ UNCHANGED start_time
       ELSE /\ mpc' = "submit"
            /\ start_time' = now
    /\ UNCHANGED <<arg_vars, fs_vars, lock, bytes_downloaded, recent_bytes,
                   recent_times, now, frame, added, recorded, pool_vars, submitted, yielded,
                   tallied, successful, failed, pbar_n, pbar_closed, summary, run,
                   reporter_vars>>

\* lines 162-165: executor.submit(download_file, url, output_path, stats)
Submit ==
    /\ mpc = "submit"
    /\ submitted' = submitted + 1
    /\ queue' = Append(queue, submitted + 1)
    /\ mpc' = IF submitted + 1 = Len(urls) THEN "tqdm" ELSE "submit"
    /\ UNCHANGED <<arg_vars, fs_vars, stats_vars, frame, added, recorded, result, yielded,
                   tallied, successful, failed, pbar_n, pbar_closed, summary, run,
                   reporter_vars>>

\* lines 171-181: the bar is created and the speed thread started
StartSpeedThread ==
    /\ mpc = "tqdm"
    /\ rpc' = "check"
    /\ mpc' = "as_completed"
    /\ UNCHANGED <<arg_vars, fs_vars, stats_vars, frame, added, recorded, pool_vars, submitted,
                   yielded, tallied, successful, failed, pbar_n, pbar_closed, summary,
                   run, postfix, speed>>

\* (mutant) a done future is yielded again
AsCompletedAgain == {i \in Items : result[i] # NoResult}

\* as_completed(future_to_url): each future is yielded once, after it is done
AsCompleted == {i \in Items : result[i] # NoResult /\ i \notin yielded}

\* lines 183-192: one pass of the loop over as_completed; unpacking a result
\* that is no 4-tuple raises, which leaves both with blocks
Tally ==
    /\ mpc = "as_completed"
    /\ \E i \in AsCompleted :
          /\ yielded' = yielded \cup {i}
          /\ IF result[i] = None
             THEN /\ mpc' = "raised"
                  /\ pbar_closed' = TRUE
                  /\ UNCHANGED <<tallied, successful, failed, pbar_n>>
             ELSE /\ tallied' = [tallied EXCEPT ![i] = @ + 1]
                  /\ successful' = IF result[i][2] THEN successful + 1 ELSE successful
                  /\ failed' = IF result[i][2] THEN failed ELSE failed + 1
                  /\ pbar_n' = pbar_n + 1
                  /\ UNCHANGED <<mpc, pbar_closed>>
    /\ UNCHANGED <<arg_vars, fs_vars, stats_vars, frame, added, recorded, pool_vars, submitted,
                   summary, run, reporter_vars>>

\* (mutant) the loop ends when no further future is done yet, and the executor
\* is shut down without waiting
ExitBlocksEarly ==
    /\ mpc = "as_completed"
    /\ yielded # {}
    /\ AsCompleted = {}
    /\ pbar_closed' = TRUE
    /\ mpc' = "final_stats"
    /\ UNCHANGED <<arg_vars, fs_vars, stats_vars, frame, added, recorded, pool_vars,
                   submitted, yielded, tallied, successful, failed, pbar_n, summary,
                   run, reporter_vars>>

\* lines 192-193: as_completed is exhausted, the bar is closed and the executor
\* shut down (shutdown(wait=True) joins the pool's threads)
ExitBlocks ==
    /\ mpc = "as_completed"
    /\ yielded = Items
    /\ \A w \in Workers : frame[w].pc = "idle"
    /\ pbar_closed' = TRUE
    /\ mpc' = "final_stats"
    /\ UNCHANGED <<arg_vars, fs_vars, stats_vars, frame, added, recorded, pool_vars, submitted,
                   yielded, tallied, successful, failed, pbar_n, summary, run,
                   reporter_vars>>

\* line 195: stats.get_total_downloaded() takes the lock
FinalAcquire ==
    /\ mpc = "final_stats"
    /\ LockFree(lock)
    /\ lock' = MainThread
    /\ mpc' = "final_locked"
    /\ UNCHANGED <<arg_vars, fs_vars, bytes_downloaded, recent_bytes, recent_times,
                   start_time, now, frame, added, recorded, pool_vars, submitted, yielded,
                   tallied, successful, failed, pbar_n, pbar_closed, summary, run,
                   reporter_vars>>

\* lines 195-205: the total is read, the lock released and the statistics printed
Summary ==
    /\ mpc = "final_locked"
    /\ lock' = 0
    /\ \E t \in ClockReadings :
          /\ now' = t
          /\ LET total == get_total_downloaded
                 total_time == t - start_time
             IN summary' = <<[successful |-> successful,
                              failed |-> failed,
                              total |-> Len(urls),
                              total_downloaded |-> total,
                              total_time |-> total_time,
                              avg_speed |-> IF total_time > 0
                                            THEN <<total[1], total[2] * total_time>>
                                            ELSE Zero]>>
    /\ mpc' = "done"
    /\ UNCHANGED <<arg_vars, fs_vars, bytes_downloaded, recent_bytes, recent_times,
                   start_time, frame, added, recorded, pool_vars, submitted, yielded, tallied,
                   successful, failed, pbar_n, pbar_closed, run, reporter_vars>>

\* ------------------------------------------------------ update_speed
\* line 174: while not pbar.n >= pbar.total (first, and after each sleep)
SpeedCheck ==
    /\ rpc = "check"
    /\ rpc' = IF pbar_n >= Len(urls) THEN "exited" ELSE "get_speed"
    /\ UNCHANGED <<arg_vars, fs_vars, stats_vars, frame, added, recorded, pool_vars, main_vars,
                   postfix, speed>>

\* line 175: stats.get_speed() takes the lock
SpeedAcquire ==
    /\ rpc = "get_speed"
    /\ LockFree(lock)
    /\ lock' = SpeedThread
    /\ rpc' = "gs_locked"
    /\ UNCHANGED <<arg_vars, fs_vars, bytes_downloaded, recent_bytes, recent_times,
                   start_time, now, frame, added, recorded, pool_vars, main_vars, postfix, speed>>

\* line 175: the speed is computed and the lock released
SpeedRead ==
    /\ rpc = "gs_locked"
    /\ speed' = get_speed
    /\ lock' = 0
    /\ rpc' = "get_total"
    /\ UNCHANGED <<arg_vars, fs_vars, bytes_downloaded, recent_bytes, recent_times,
                   start_time, now, frame, added, recorded, pool_vars, main_vars, postfix>>

\* line 176: stats.get_total_downloaded() takes the lock
TotalAcquire ==
    /\ rpc = "get_total"
    /\ LockFree(lock)
    /\ lock' = SpeedThread
    /\ rpc' = "gt_locked"
    /\ UNCHANGED <<arg_vars, fs_vars, bytes_downloaded, recent_bytes, recent_times,
                   start_time, now, frame, added, recorded, pool_vars, main_vars, postfix, speed>>

\* lines 176-178: the total is read, the lock released and the bar's postfix
\* set from the two values, which are not used again; then the thread sleeps
TotalRead ==
    /\ rpc = "gt_locked"
    /\ postfix' = TRUE
    /\ speed' = Zero
    /\ lock' = 0
    /\ rpc' = "check"
    /\ UNCHANGED <<arg_vars, fs_vars, bytes_downloaded, recent_bytes, recent_times,
                   start_time, now, frame, added, recorded, pool_vars, main_vars>>

\* ------------------------------------------------------ the program
\* What a file found in the output directory holds.
ExistingContents == {<<MaxChunkSize>>}

\* The pool's threads before any work item is taken.
Frames == [w \in Workers |-> IdleFrame]

\* The state every run of the program starts in.
RunInit ==
    /\ lock = 0
    /\ bytes_downloaded = 0
    /\ recent_bytes = <<>>
    /\ recent_times = <<>>
    /\ start_time = 0
    /\ now = 0
    /\ frame = Frames
    /\ added = 0
    /\ recorded = <<>>
    /\ result = [i \in Items |-> NoResult]
    /\ queue = <<>>
    /\ mpc = "start"
    /\ submitted = 0
    /\ yielded = {}
    /\ tallied = [i \in Items |-> 0]
    /\ successful = 0
    /\ failed = 0
    /\ pbar_n = 0
    /\ pbar_closed = FALSE
    /\ summary = NoSummary
    /\ postfix = FALSE
    /\ rpc = "not_started"
    /\ speed = Zero

\* download_archives(start_dt, end_dt, output_path, max_workers) as main calls
\* it: download_file runs with its default max_retries
Init ==
    /\ max_retries = DefaultMaxRetries
    /\ max_workers \in 1..MaxWorkers
    /\ \E start_dt \in 0..MaxInstant, end_dt \in 0..MaxInstant :
          urls = generate_urls(start_dt, end_dt)
    /\ files \in [Filenames -> {NoFile} \cup ExistingContents]
    /\ \A f \in Filenames : files[f] # NoFile => \E i \in Items : FileOf(i) = f
    /\ dir_exists \in {\E f \in Filenames : files[f] # NoFile, TRUE}
    /\ gen = NoCall
    /\ initial_files = files
    /\ run = 1
    /\ RunInit

\* The program is run again with the same arguments against the same output
\* directory: a new process (the daemon speed thread died with the old one).
Rerun ==
    /\ mpc \in {"done", "no_archives"}
    /\ run < MaxRuns
    /\ run' = run + 1
    /\ lock' = 0
    /\ bytes_downloaded' = 0
    /\ recent_bytes' = <<>>
    /\ recent_times' = <<>>
    /\ start_time' = 0
    /\ now' = 0
    /\ frame' = Frames
    /\ added' = 0
    /\ recorded' = <<>>
    /\ result' = [i \in Items |-> NoResult]
    /\ queue' = <<>>
    /\ mpc' = "start"
    /\ submitted' = 0
    /\ yielded' = {}
    /\ tallied' = [i \in Items |-> 0]
    /\ successful' = 0
    /\ failed' = 0
    /\ pbar_n' = 0
    /\ pbar_closed' = FALSE
    /\ summary' = NoSummary
    /\ postfix' = FALSE
    /\ rpc' = "not_started"
    /\ speed' = Zero
    /\ initial_files' = files
    /\ UNCHANGED <<max_retries, max_workers, urls, gen, fs_vars>>

RunNext ==
    \/ \E w \in Workers : Take(w)
    \/ \E w \in Workers : CheckExists(w)
    \/ \E w \in Workers : Get(w)
    \/ \E w \in Workers : Makedirs(w)
    \/ \E w \in Workers : Open(w)
    \/ \E w \in Workers : StreamChunk(w)
    \/ \E w \in Workers : StreamEnd(w)
    \/ \E w \in Workers : Sleep(w)
    \/ \E w \in Workers : Deliver(w)
    \/ \E w \in Workers : AddBytesAcquire(w)
    \/ \E w \in Workers : AddBytesStore(w)
    \/ \E w \in Workers : AddBytesAppendBytes(w)
    \/ \E w \in Workers : AddBytesAppendTimes(w)
    \/ Start
    \/ Submit
    \/ StartSpeedThread
    \/ Tally
    \/ ExitBlocks
    \/ FinalAcquire
    \/ Summary
    \/ SpeedCheck
    \/ SpeedAcquire
    \/ SpeedRead
    \/ TotalAcquire
    \/ TotalRead

Next ==
    \/ RunNext
    \/ Rerun

Spec == Init /\ [][Next]_vars

\* ------------------------------------------------- one run, scheduled fairly
\* What a pool thread does next, but for taking the lock.
WorkerStep(w) ==
    \/ Take(w)
    \/ CheckExists(w)
    \/ Get(w)
    \/ Makedirs(w)
    \/ Open(w)
    \/ StreamChunk(w)
    \/ StreamEnd(w)
    \/ Sleep(w)
    \/ Deliver(w)
    \/ AddBytesStore(w)
    \/ AddBytesAppendBytes(w)
    \/ AddBytesAppendTimes(w)

\* What the main thread does next, but for taking the lock.
MainStep ==
    \/ Start
    \/ Submit
    \/ StartSpeedThread
    \/ Tally
    \/ ExitBlocks
    \/ Summary

\* Every thread that can run does run: requests, sleeps and writes end; a
\* thread that waits for the lock gets it when it is free again and again;
\* the speed thread leaves each with block it has entered.
Fairness ==
    /\ \A w \in Workers : WF_vars(WorkerStep(w)) /\ SF_vars(AddBytesAcquire(w))
    /\ WF_vars(MainStep)
    /\ SF_vars(FinalAcquire)
    /\ WF_vars(SpeedRead)
    /\ WF_vars(TotalRead)

\* The runs whose pool has a single thread: the items are fetched one after
\* the other, next to the main thread and the speed thread.
LiveInit == Init /\ max_workers = 1

LiveSpec == LiveInit /\ [][RunNext]_vars /\ Fairness

\* ------------------------------------------------- a direct call of download_file
\* download_file(url, output_path, stats, max_retries) called once, by thread
\* 1, for any max_retries and with or without a file at the target path
FetchInit ==
    /\ max_retries \in 0..MaxRetriesArg
    /\ max_workers = 1
    /\ urls = generate_urls(0, 0)
    /\ \E c \in {NoFile, <<>>} \cup ExistingContents :
          files = [f \in Filenames |-> IF f = UrlOf(0) THEN c ELSE NoFile]
    /\ dir_exists \in {files[UrlOf(0)] # NoFile, TRUE}
    /\ gen = NoCall
    /\ initial_files = files
    /\ run = 1
    /\ frame = [Frames EXCEPT ![1] = CallFrame(1)]
    /\ mpc = "caller"
    /\ lock = 0
    /\ bytes_downloaded = 0
    /\ recent_bytes = <<>>
    /\ recent_times = <<>>
    /\ start_time = 0
    /\ now = 0
    /\ added = 0
    /\ recorded = <<>>
    /\ result = [i \in Items |-> NoResult]
    /\ queue = <<>>
    /\ submitted = 0
    /\ yielded = {}
    /\ tallied = [i \in Items |-> 0]
    /\ successful = 0
    /\ failed = 0
    /\ pbar_n = 0
    /\ pbar_closed = FALSE
    /\ summary = NoSummary
    /\ postfix = FALSE
    /\ rpc = "not_started"
    /\ speed = Zero

FetchNext ==
    \/ \E w \in Workers : CheckExists(w)
    \/ \E w \in Workers : FallOffEnd(w)
    \/ \E w \in Workers : Get(w)
    \/ \E w \in Workers : Makedirs(w)
    \/ \E w \in Workers : Open(w)
    \/ \E w \in Workers : StreamChunk(w)
    \/ \E w \in Workers : StreamEnd(w)
    \/ \E w \in Workers : Sleep(w)
    \/ \E w \in Workers : Deliver(w)
    \/ \E w \in Workers : AddBytesAcquire(w)
    \/ \E w \in Workers : AddBytesStore(w)
    \/ \E w \in Workers : AddBytesAppendBytes(w)
    \/ \E w \in Workers : AddBytesAppendTimes(w)

FetchSpec == FetchInit /\ [][FetchNext]_vars

\* ------------------------------------------------- download_file called again
\* The caller, having the value of a call, calls download_file again for the
\* same url and output_path.
CallAgain(w) ==
    /\ mpc = "caller"
    /\ w <= max_workers
    /\ frame[w].pc = "idle"
    /\ \E i \in Items :
          /\ result[i] # NoResult
          /\ frame' = [frame EXCEPT ![w] = CallFrame(i)]
    /\ UNCHANGED <<arg_vars, fs_vars, stats_vars, added, recorded, pool_vars, main_vars,
                   reporter_vars>>

RefetchNext ==
    \/ FetchNext
    \/ \E w \in Workers : CallAgain(w)

RefetchSpec == FetchInit /\ [][RefetchNext]_vars

\* ------------------------------------------------- a call of generate_urls
\* The instants of the hours around the first midnight.
GenInstants ==
    (HoursPerDay * Resolution - GenSpan)..(HoursPerDay * Resolution + GenSpan - 1)

\* line 145: download_archives has called generate_urls(start_dt, end_dt),
\* for any two instants
GenInit ==
    /\ max_retries = DefaultMaxRetries
    /\ max_workers = 1
    /\ gen \in [pc : {"call"}, start_dt : GenInstants, end_dt : GenInstants]
    /\ urls = <<>>
    /\ files = [f \in Filenames |-> NoFile]
    /\ dir_exists = FALSE
    /\ initial_files = files
    /\ run = 1
    /\ RunInit

\* lines 82-93: the call returns the list
GenerateUrls ==
    /\ gen.pc = "call"
    /\ urls' = generate_urls(gen.start_dt, gen.end_dt)
    /\ gen' = [gen EXCEPT !.pc = "returned"]
    /\ UNCHANGED <<max_retries, max_workers, initial_files, fs_vars, stats_vars,
                   frame, added, recorded, pool_vars, main_vars, reporter_vars>>

GenNext == GenerateUrls

GenSpec == GenInit /\ [][GenNext]_vars

\* ------------------------------------------------- a DownloadStats object in use
\* Calls of add_bytes made so far, the open ones included.
Calls ==
    Len(recorded) + Cardinality({w \in Workers : frame[w].pc \in
                                    {"add_bytes", "ab_store", "ab_bytes", "ab_times"}})

\* A new DownloadStats object shared by n threads that call add_bytes in a
\* loop, as the loop over the chunks does; r is where the thread that reads it
\* as update_speed does (while an item is not complete) stands.
StatsObject(n, r) ==
    /\ max_retries = DefaultMaxRetries
    /\ max_workers = n
    /\ gen = NoCall
    /\ urls = generate_urls(0, 0)
    /\ files = [f \in Filenames |-> NoFile]
    /\ dir_exists = FALSE
    /\ initial_files = files
    /\ run = 1
    /\ frame = [w \in Workers |-> IF w <= n THEN [IdleFrame EXCEPT !.pc = "stream"]
                                   ELSE IdleFrame]
    /\ mpc = "as_completed"
    /\ rpc = r
    /\ lock = 0
    /\ bytes_downloaded = 0
    /\ recent_bytes = <<>>
    /\ recent_times = <<>>
    /\ start_time = 0
    /\ now = 0
    /\ added = 0
    /\ recorded = <<>>
    /\ result = [i \in Items |-> NoResult]
    /\ queue = <<>>
    /\ submitted = 1
    /\ yielded = {}
    /\ tallied = [i \in Items |-> 0]
    /\ successful = 0
    /\ failed = 0
    /\ pbar_n = 0
    /\ pbar_closed = FALSE
    /\ summary = NoSummary
    /\ postfix = FALSE
    /\ speed = Zero

\* line 36: stats.add_bytes(bytes_count) is called; the k-th call made passes
\* k bytes, so that every sample recorded is told from every other
AddBytesCall(w) ==
    /\ frame[w].pc = "stream"
    /\ Calls < MaxCalls
    /\ LET c == Calls + 1
       IN /\ frame' = [frame EXCEPT ![w].bytes_count = c, ![w].pc = "add_bytes"]
          /\ added' = added + c
    /\ UNCHANGED <<arg_vars, fs_vars, stats_vars, recorded, pool_vars, main_vars,
                   reporter_vars>>

\* Concurrent callers of add_bytes.
StatsInit == StatsObject(MaxWorkers, "not_started")

StatsNext ==
    \/ \E w \in Workers : AddBytesCall(w)
    \/ \E w \in Workers : AddBytesAcquire(w)
    \/ \E w \in Workers : AddBytesStore(w)
    \/ \E w \in Workers : AddBytesAppendBytes(w)
    \/ \E w \in Workers : AddBytesAppendTimes(w)

StatsSpec == StatsInit /\ [][StatsNext]_vars

\* A caller of add_bytes and a reader of the speed and the total.
ReadInit == StatsObject(1, "check")

ReadNext ==
    \/ \E w \in Workers : AddBytesCall(w)
    \/ \E w \in Workers : AddBytesAcquire(w)
    \/ \E w \in Workers : AddBytesStore(w)
    \/ \E w \in Workers : AddBytesAppendBytes(w)
    \/ \E w \in Workers : AddBytesAppendTimes(w)
    \/ SpeedCheck
    \/ SpeedAcquire
    \/ SpeedRead
    \/ TotalAcquire
    \/ TotalRead

ReadSpec == ReadInit /\ [][ReadNext]_vars

\* =================================================================
\* Claims about generate_urls, checked under GenSpec.

\* The instant t with minutes, seconds and microseconds dropped.
FloorHour(t) == Resolution * (t \div Resolution)

\* The bucket (the datetime) of the k-th pair of the list.
Bucket(k) == urls[k][2]

\* C13: for start <= end, generate_urls returns (floor_hour(end) -
\* floor_hour(start)) / 1 hour + 1 items; the first bucket is the start
\* truncated to its hour, consecutive buckets are one hour apart in ascending
\* order, every bucket lies in [floor_hour(start), end], and start = end gives
\* one item, hour-aligned or not.
C13_OneItemPerHour ==
    (gen.pc = "returned" /\ gen.start_dt <= gen.end_dt) =>
       LET first == FloorHour(gen.start_dt)
           last == FloorHour(gen.end_dt)
       IN /\ Len(urls) = (last - first) \div Resolution + 1
          /\ Bucket(1) = first
          /\ \A k \in 1..(Len(urls) - 1) : Bucket(k + 1) = Bucket(k) + Resolution
          /\ \A k \in 1..Len(urls) : first <= Bucket(k) /\ Bucket(k) <= gen.end_dt
          /\ gen.start_dt = gen.end_dt => Len(urls) = 1

C13_Witness ==
    /\ gen.pc = "returned"
    /\ gen.start_dt < gen.end_dt
    /\ gen.start_dt % Resolution # 0
    /\ gen.end_dt % Resolution # 0
    /\ Len(urls) = 3
    /\ urls[1][1][1] # urls[3][1][1]

\* =================================================================
\* Claims about download_file, checked under FetchSpec.

\* The durations of the first n backoff sleeps: 2^0, ..., 2^(n-1).
Backoffs(n) == [k \in 1..n |-> Pow2(k - 1)]

\* A (url, success, message, size) tuple.
IsDownloadResult(r) == Len(r) = 4

\* The message kind of a returned value ("" when it is no result tuple).
Message(r) == IF IsDownloadResult(r) THEN r[3] ELSE ""

\* Attempts of the call that ended in a transport error: each one either
\* slept or, being the last, returned "Failed after attempts".
TransportFailures(f) ==
    Len(f.sleeps) + (IF Message(f.ret) = "Failed after attempts" THEN 1 ELSE 0)

\* C2: download_file returns exactly one DownloadResult tuple (url, success,
\* message, bytes) for every max_retries >= 0: whenever the call returns, the
\* value returned is such a tuple.
C2_ReturnsADownloadResult ==
    \A w \in Workers : frame[w].pc = "return" => IsDownloadResult(frame[w].ret)

\* C3: when no file was at the target path and every attempt failed with a
\* transport error, the call made exactly max_retries requests, slept
\* max_retries - 1 times for 2^0, 2^1, ... seconds (so not after the last
\* attempt) and returns failure.
C3_AllAttemptsFail ==
    \A w \in Workers :
       LET f == frame[w] IN
       /\ (f.pc = "return" /\ f.gets >= 1 /\ TransportFailures(f) = f.gets) =>
             /\ f.ret = FailedAfter(f.item)
             /\ f.gets = max_retries
             /\ f.sleeps = Backoffs(max_retries - 1)
       /\ (f.pc = "return" /\ Message(f.ret) = "Failed after attempts") =>
             /\ f.ret[2] = FALSE
             /\ TransportFailures(f) = f.gets

C3_Witness ==
    \E w \in Workers :
       /\ frame[w].pc = "return"
       /\ frame[w].ret = FailedAfter(frame[w].item)
       /\ initial_files[FileOf(frame[w].item)] = NoFile
       /\ max_retries = 3
       /\ frame[w].gets = 3
       /\ frame[w].sleeps = <<1, 2>>

\* C4: when the first N attempts fail with a transport error and attempt N + 1
\* succeeds, the call returns success having slept exactly N times, the k-th
\* sleep (from 0) for 2^k seconds, each after the k-th failed attempt and
\* before the next request.
C4_FailsThenSucceeds ==
    \A w \in Workers :
       LET f == frame[w] IN
       /\ (f.pc = "return" /\ Message(f.ret) = "Downloaded") =>
             /\ f.ret[2] = TRUE
             /\ f.gets <= max_retries
             /\ f.sleeps = Backoffs(f.gets - 1)
       /\ f.pc = "sleep" => f.gets = f.attempt + 1 /\ f.sleeps = Backoffs(f.gets)
       /\ f.pc = "get" => f.gets = f.attempt /\ f.sleeps = Backoffs(f.gets)
       /\ f.pc \in {"makedirs", "open", "stream", "add_bytes", "ab_store",
                    "ab_bytes", "ab_times"} =>
             f.gets = f.attempt + 1 /\ f.sleeps = Backoffs(f.attempt)

C4_Witness ==
    \E w \in Workers :
       /\ frame[w].pc = "return"
       /\ Message(frame[w].ret) = "Downloaded"
       /\ frame[w].gets = 4
       /\ frame[w].sleeps = <<1, 2, 4>>

\* C5: an exception that is no transport error, on whichever attempt it is
\* raised, makes the call return failure at once: no request and no sleep
\* follows, even when attempts remain.
C5_NonTransportFailsAtOnce ==
    \A w \in Workers :
       LET f == frame[w] IN
       /\ f.e \notin {"", "RequestException"} =>
             /\ f.pc = "return"
             /\ f.ret = ErrorDownloading(f.item)
             /\ f.gets = f.attempt + 1
             /\ Len(f.sleeps) = f.attempt
       /\ Message(f.ret) = "Error downloading" =>
             f.ret[2] = FALSE /\ f.e \notin {"", "RequestException"}

C5_Witness ==
    \E w \in Workers :
       /\ frame[w].e = "OSError"
       /\ frame[w].pc = "return"
       /\ frame[w].attempt = 1
       /\ frame[w].attempt < max_retries - 1

\* C6: when a file is at the target path as download_file starts, the call
\* returns success with 0 bytes and changes nothing: no request, no sleep, the
\* file as it was, the statistics (total and window) untouched.
C6_ExistingFileShortCircuits ==
    \A w \in Workers :
       LET f == frame[w] IN
       (f.pc # "idle" /\ initial_files[FileOf(f.item)] # NoFile) =>
          /\ f.pc \in {"exists", "return"}
          /\ f.pc = "return" => f.ret = <<Url(f.item), TRUE, "Already exists", 0>>
          /\ f.gets = 0
          /\ f.sleeps = <<>>
          /\ files = initial_files
          /\ dir_exists
          /\ bytes_downloaded = 0
          /\ recent_bytes = <<>>
          /\ recent_times = <<>>
          /\ added = 0
          /\ lock = 0

C6_Witness ==
    \E w \in Workers :
       /\ frame[w].pc = "return"
       /\ Message(frame[w].ret) = "Already exists"
       /\ initial_files[FileOf(frame[w].item)] = <<MaxChunkSize>>

\* =================================================================
\* Claims about download_archives, checked under Spec.

\* The items whose future is done with a success.
Succeeded == {i \in Items : IsDownloadResult(result[i]) /\ result[i][2]}

\* C1: every generated item contributes exactly one result to the tally: the
\* counters count each yielded future once, and when the statistics are printed
\* successful + failed is the number of items, successful being the number of
\* results with success = true.
C1_OneResultPerItem ==
    /\ \A i \in Items : tallied[i] = (IF i \in yielded THEN 1 ELSE 0)
    /\ \A i \in yielded : IsDownloadResult(result[i])
    /\ successful = Cardinality(Succeeded \cap yielded)
    /\ successful + failed = Cardinality(yielded)
    /\ pbar_n = successful + failed
    /\ mpc = "done" =>
          /\ yielded = Items
          /\ summary[1].successful + summary[1].failed = Len(urls)
          /\ summary[1].total = Len(urls)
          /\ summary[1].successful = Cardinality(Succeeded)

C1_Witness ==
    /\ mpc = "done"
    /\ Len(urls) = 2
    /\ summary[1].successful = 1
    /\ summary[1].failed = 1
    /\ \E i \in Items : Message(result[i]) = "Failed after attempts"

\* C7 as stated: in a second run against the same directory every item is a
\* success with 0 bytes and the cumulative total is 0, whatever the first run's
\* outcomes were.
C7_SecondRunAllSkipped ==
    (run = 2 /\ mpc = "done") =>
       /\ \A i \in Items : result[i][2] /\ result[i][4] = 0
       /\ summary[1].successful = Len(urls)
       /\ summary[1].total_downloaded = <<0, MiB>>

\* What the second run reports for the files the first run left behind.
C7_SkipsFilesLeft ==
    run >= 2 =>
       /\ \A i \in Items :
             (initial_files[FileOf(i)] # NoFile /\ result[i] # NoResult) =>
                result[i] = <<Url(i), TRUE, "Already exists", 0>>
       /\ (mpc = "done" /\ \A i \in Items : initial_files[FileOf(i)] # NoFile) =>
             /\ summary[1].successful = Len(urls)
             /\ summary[1].failed = 0
             /\ summary[1].total_downloaded = <<0, MiB>>

\* What a run leaves behind for the next: the file of every item it reported
\* as a success, and every other file that was there when it ended.
C7_LeavesFiles ==
    run' = run + 1 =>
       \A i \in Items :
          (i \in Succeeded \/ files[FileOf(i)] # NoFile) =>
             initial_files'[FileOf(i)] # NoFile

\* C7 (amended): in a second run against the same directory, every item whose
\* file the first run left at its target path (every item the first run
\* reported as a success among them) is a success with 0 bytes, and when that
\* is every item the cumulative total is 0.
C7_SecondRunSkipsFilesLeft == []C7_SkipsFilesLeft /\ [][C7_LeavesFiles]_vars

C7_Witness ==
    /\ run = 2
    /\ mpc = "done"
    /\ Len(urls) = 2
    /\ \A i \in Items : initial_files[FileOf(i)] # NoFile
    /\ \E i \in Items : initial_files[FileOf(i)] = <<>>
    /\ summary[1].successful = 2

\* Threads inside the with block of add_bytes.
InAddBytes == {w \in Workers : frame[w].pc \in {"ab_store", "ab_bytes", "ab_times"}}

\* Bytes passed to add_bytes by calls that have not stored the new total yet.
Unapplied ==
    Sum([w \in Workers |-> IF frame[w].pc \in {"add_bytes", "ab_store"}
                           THEN frame[w].bytes_count ELSE 0])

\* C8: under any interleaving of the workers' add_bytes calls and the
\* reporter's reads no update is lost (the total is the sum of the byte counts
\* of the calls that have stored it, and once all calls have returned the sum
\* of all byte counts passed) and no read sees a torn state (a reader holds the
\* lock only while no add_bytes is between its first and its last write).
C8_NoLostUpdateNoTornRead ==
    /\ bytes_downloaded + Unapplied = added
    /\ Cardinality(InAddBytes) <= 1
    /\ InAddBytes = {} => Len(recent_bytes) = Len(recent_times)
    /\ (rpc \in {"gs_locked", "gt_locked"} \/ mpc = "final_locked") => InAddBytes = {}
    /\ mpc = "done" => summary[1].total_downloaded = <<added, MiB>>

C8_Witness ==
    /\ \E v \in InAddBytes : \E w \in Workers : w # v /\ frame[w].pc = "add_bytes"
    /\ rpc \in {"get_speed", "get_total"}
    /\ bytes_downloaded >= 1

\* The download_file invocations that have started and not returned.
Running == {w \in Workers : frame[w].pc # "idle"}

\* C9: at most max_workers invocations of download_file are running at any
\* moment; a further item waits in the queue until one has returned.
C9_AtMostMaxWorkersRunning == Cardinality(Running) <= max_workers

C9_Witness ==
    /\ Len(urls) > max_workers
    /\ Cardinality(Running) = max_workers
    /\ queue # <<>>
    /\ mpc = "as_completed"
    /\ \E w \in Running : frame[w].pc = "sleep"

\* =================================================================
\* Claims about download_archives, checked under LiveSpec.

\* The statistics have been printed and cover every item.
SummaryCoversEveryItem ==
    /\ mpc = "done"
    /\ yielded = Items
    /\ summary # NoSummary
    /\ summary[1].total = Len(urls)
    /\ summary[1].successful + summary[1].failed = Len(urls)

\* C10: a run over a non-empty list ends with the statistics printed and
\* covering every item, whatever items fail and however they fail.
C10_RunEndsWithSummary == (mpc = "start" /\ urls # <<>>) ~> SummaryCoversEveryItem

C10_Witness ==
    /\ SummaryCoversEveryItem
    /\ Len(urls) = 2
    /\ summary[1].failed = 2
    /\ \E i \in Items : Message(result[i]) = "Failed after attempts"
    /\ \E i \in Items : Message(result[i]) = "Error downloading"

\* =================================================================
\* Claims about the final statistics and the speed thread, checked under Spec.

\* The sum of the sizes the futures' results report.
ResultBytes ==
    Sum([i \in Items |-> IF IsDownloadResult(result[i]) THEN result[i][4] ELSE 0])

\* C11: when the statistics are printed, the total they report (the cumulative
\* total of the DownloadStats object) is the sum of the sizes of the results of
\* the run, whatever the outcome of each item, also when an attempt streamed
\* chunks and then failed.
C11_TotalIsSumOfResults ==
    mpc = "done" => summary[1].total_downloaded = <<ResultBytes, MiB>>

\* C12: the speed thread polls until every item is counted and has stopped
\* before the bar is closed and the final statistics are computed: it takes no
\* sample and sets no postfix once the bar is closed, and it has exited when
\* download_archives reads the total for the statistics.
C12_ReporterStoppedBeforeSummary ==
    /\ rpc = "exited" => pbar_n >= Len(urls)
    /\ pbar_closed => rpc \notin {"gs_locked", "gt_locked"}
    /\ mpc \in {"final_locked", "done"} => rpc = "exited"

\* =================================================================
\* Claims about DownloadStats, checked under StatsSpec and ReadSpec.

\* The window as (bytes_count, current_time) pairs.
Window == [k \in 1..Len(recent_bytes) |-> <<recent_bytes[k], recent_times[k]>>]

\* The last n samples recorded, in the order they were recorded.
LastRecorded(n) == SubSeq(recorded, Len(recorded) - n + 1, Len(recorded))

\* The samples the window should hold: the most recent min(k, 10) of k.
RecentSamples == LastRecorded(Min(Len(recorded), WindowSize))

\* The byte counts of all samples recorded, the evicted ones included.
RecordedBytes == Sum([k \in 1..Len(recorded) |-> recorded[k][1]])

\* The byte count of the call that has stored the total and not yet completed
\* its sample.
StoredBytes ==
    Sum([w \in Workers |-> IF frame[w].pc \in {"ab_bytes", "ab_times"}
                           THEN frame[w].bytes_count ELSE 0])

\* What the window and the total hold after k calls.
C14_WindowAndTotal ==
    /\ Len(recent_bytes) <= WindowSize
    /\ Len(recent_times) <= WindowSize
    /\ InAddBytes = {} => Window = RecentSamples
    /\ bytes_downloaded = RecordedBytes + StoredBytes

\* The total never decreases.
C14_TotalGrows == bytes_downloaded' >= bytes_downloaded

\* C14: after any sequence of add_bytes calls by concurrent callers the window
\* holds at most 10 pairs, exactly the most recent min(k, 10) samples of the k
\* recorded, in the order of their arrival (the 11th and later calls each evict
\* the oldest pair), while the total still includes the evicted samples and
\* never decreases.
C14_WindowKeepsLastTen == []C14_WindowAndTotal /\ [][C14_TotalGrows]_vars

C14_Witness ==
    /\ Len(recorded) = WindowSize + 2
    /\ InAddBytes = {}
    /\ Window = RecentSamples
    /\ recorded[1][1] > recorded[2][1]
    /\ recent_times[1] < recent_times[WindowSize]
    /\ bytes_downloaded > Sum(recent_bytes)

\* The speed of a window w of (bytes, time) pairs, in MiB/s.
SpeedOf(w) ==
    IF Len(w) < 2 \/ w[Len(w)][2] = w[1][2]
    THEN Zero
    ELSE <<Sum([k \in 1..Len(w) |-> w[k][1]]), (w[Len(w)][2] - w[1][2]) * MiB>>

\* What a call of get_speed returns, when it returns.
C15_SpeedReturned ==
    (rpc = "gs_locked" /\ rpc' = "get_total") =>
       /\ speed' = SpeedOf(RecentSamples)
       /\ speed'[2] # 0
       /\ (Len(recorded) < 2 \/ RecentSamples[1][2] = recorded[Len(recorded)][2]) =>
             speed'[1] = 0

\* C15: get_speed returns 0 when the window holds fewer than 2 samples or its
\* oldest and newest timestamps are the same; otherwise it returns the sum of
\* the window's byte counts over (newest - oldest timestamp), from the window
\* only, never from evicted samples, and never divides by zero.
C15_SpeedFromWindow == [][C15_SpeedReturned]_vars

C15_Witness ==
    /\ rpc = "get_total"
    /\ Len(recorded) = MaxCalls
    /\ speed = SpeedOf(RecentSamples)
    /\ speed[1] > 0
    /\ bytes_downloaded > speed[1]

\* =================================================================
\* Claims about the workers of one run, checked under Spec.

\* The invocations that have the target file open for writing (lines 117-123).
Writing ==
    {w \in Workers : frame[w].pc \in {"stream", "add_bytes", "ab_store", "ab_bytes",
                                       "ab_times"}}

\* Distinct items have distinct paths, and no file is written by two.
C16_DistinctPaths ==
    /\ \A i, j \in Items : i # j => FileOf(i) # FileOf(j)
    /\ \A w, v \in Running : w # v => frame[w].item # frame[v].item
    /\ \A w, v \in Writing : w # v => FileOf(frame[w].item) # FileOf(frame[v].item)

\* A worker that reaches os.makedirs when the directory is there goes on to
\* open its file.
C16_MakedirsTolerant ==
    \A w \in Workers :
       (frame[w].pc = "makedirs" /\ dir_exists /\ frame'[w] # frame[w]) =>
          frame'[w].pc = "open" /\ frame'[w].e = ""

\* C16: within a run distinct items map to distinct target paths, so in every
\* interleaving no two download_file invocations have the same file open for
\* writing at once, and the creation of the output directory by several
\* workers makes none of them fail.
C16_NoContention == []C16_DistinctPaths /\ [][C16_MakedirsTolerant]_vars

C16_Witness ==
    /\ \E w, v \in Writing :
          /\ w # v
          /\ files[FileOf(frame[w].item)] = <<MaxChunkSize>>
          /\ files[FileOf(frame[v].item)] = <<MaxChunkSize>>
    /\ \A f \in Filenames : initial_files[f] = NoFile
    /\ run = 1

\* The main thread is at or past the read of the total for the statistics.
AtFinalStatistics == mpc \in {"final_stats", "final_locked", "done"}

\* Nothing of the pool is running when the total is read.
C17_WorkersFinished ==
    AtFinalStatistics =>
       /\ Running = {}
       /\ queue = <<>>
       /\ \A i \in Items : result[i] # NoResult
       /\ bytes_downloaded = added
       /\ mpc = "done" => summary[1].total_downloaded = <<bytes_downloaded, MiB>>

\* From the read on the total stays as it is, and the statistics are printed
\* once.
C17_TotalIsFinal ==
    run' = run =>
       /\ AtFinalStatistics =>
             /\ bytes_downloaded' = bytes_downloaded
             /\ added' = added
             /\ recorded' = recorded
             /\ frame' = frame
       /\ summary # NoSummary => summary' = summary

\* C17: the statistics are computed once, after all workers have finished:
\* when download_archives reads the total no download_file invocation is
\* running and no add_bytes call happens at or after the read, so the total
\* reported is final.
C17_SummaryAfterWorkers == []C17_WorkersFinished /\ [][C17_TotalIsFinal]_vars

C17_Witness ==
    /\ mpc = "done"
    /\ max_workers = 2
    /\ Len(urls) = 2
    /\ Len(recorded) >= 3
    /\ summary[1].total_downloaded = <<added, MiB>>
    /\ \E i \in Items : Message(result[i]) = "Downloaded"

\* The workers blocked on the network (the request, the body) or in a backoff
\* sleep.
Blocked == {w \in Workers : frame[w].pc \in {"get", "stream", "sleep"}}

\* The steps a thread takes inside a with self.lock block, up to its end.
InsideLock(t) ==
    \/ t \in Workers /\ (AddBytesStore(t) \/ AddBytesAppendBytes(t)
                            \/ AddBytesAppendTimes(t))
    \/ t = SpeedThread /\ (SpeedRead \/ TotalRead)
    \/ t = MainThread /\ Summary

\* C18: a worker never holds the lock of the DownloadStats object while it is
\* blocked on the network or in a backoff sleep: the lock is held only inside
\* one add_bytes, get_speed or get_total_downloaded call, whose holder can
\* always go on to the end of the call, so a blocked worker never keeps
\* another worker's add_bytes or the speed thread's reads from the lock.
C18_LockOnlyInsideACall ==
    /\ \A w \in Workers :
          lock = w <=> frame[w].pc \in {"ab_store", "ab_bytes", "ab_times"}
    /\ lock = SpeedThread <=> rpc \in {"gs_locked", "gt_locked"}
    /\ lock = MainThread <=> mpc = "final_locked"
    /\ lock \notin Blocked
    /\ \A t \in Workers \cup {SpeedThread, MainThread} :
          lock = t => ENABLED InsideLock(t)
    /\ \A w \in Workers :
          (frame[w].pc = "add_bytes" /\ lock \in Blocked \cup {0}) =>
             ENABLED AddBytesAcquire(w)
    /\ (rpc \in {"get_speed", "get_total"} /\ lock \in Blocked \cup {0}) =>
          ENABLED (SpeedAcquire \/ TotalAcquire)

C18_Witness ==
    /\ \E w \in Workers : frame[w].pc = "sleep"
    /\ \E w \in Workers : frame[w].pc = "add_bytes"
    /\ lock = SpeedThread
    /\ bytes_downloaded >= 1

\* =================================================================
\* Claims about repeated calls of download_file, checked under RefetchSpec.

\* What a file holds, in bytes.
FileSize(f) == Sum(files[f])

\* A call that fails after it has written bytes leaves them in the file, and a
\* call that finds the file says so without a request.
C19_PartialFileAndSkip ==
    \A w \in Workers :
       LET f == frame[w] IN
       /\ (f.pc = "return" /\ IsDownloadResult(f.ret) /\ ~f.ret[2]
             /\ f.downloaded_size > 0) =>
             /\ files[FileOf(f.item)] # NoFile
             /\ FileSize(FileOf(f.item)) = f.downloaded_size
       /\ (f.pc = "return" /\ Message(f.ret) = "Already exists") =>
             /\ f.ret = <<Url(f.item), TRUE, "Already exists", 0>>
             /\ f.gets = 0
             /\ f.sleeps = <<>>

\* No step removes a file, and a call that starts when the file is there
\* returns at once and leaves it as it is.
C19_NoCleanup ==
    /\ \A f \in Filenames : files[f] # NoFile => files'[f] # NoFile
    /\ \A w \in Workers :
          (frame[w].pc = "exists" /\ files[FileOf(frame[w].item)] # NoFile
             /\ frame'[w] # frame[w]) =>
             /\ frame'[w].pc = "return"
             /\ frame'[w].ret = <<Url(frame[w].item), TRUE, "Already exists", 0>>
             /\ files' = files
             /\ bytes_downloaded' = bytes_downloaded

\* C19: the existence of the file is the only completion marker: a failed
\* call cleans nothing up, so a file partly written by an attempt that failed
\* in mid-stream stays at the target path, and every later call for the same
\* item returns success with 0 bytes without a request.
C19_ExistenceIsTheMarker == []C19_PartialFileAndSkip /\ [][C19_NoCleanup]_vars

C19_Witness ==
    \E w \in Workers :
       /\ frame[w].pc = "return"
       /\ Message(frame[w].ret) = "Already exists"
       /\ Message(result[frame[w].item]) \in {"Failed after attempts", "Error downloading"}
       /\ initial_files[FileOf(frame[w].item)] = NoFile
       /\ files[FileOf(frame[w].item)] = <<MaxChunkSize>>

\* =================================================================
\* A further claim about download_file, checked under FetchSpec.

\* C20: when download_file returns success from a download (not from the
\* existence check), the file holds the chunks of the last, successful attempt
\* only and the size returned is the file's length, whatever earlier failed
\* attempts of the call had written: each attempt opens the file truncated and
\* starts its downloaded_size at 0.
C20_FileIsTheLastAttempt ==
    \A w \in Workers :
       LET f == frame[w] IN
       /\ (f.pc = "return" /\ Message(f.ret) = "Downloaded") =>
             /\ f.ret[2] = TRUE
             /\ files[FileOf(f.item)] # NoFile
             /\ f.ret[4] = FileSize(FileOf(f.item))
             /\ Len(files[FileOf(f.item)]) <= f.nchunks
       /\ w \in Writing =>
             /\ files[FileOf(f.item)] # NoFile
             /\ f.downloaded_size = FileSize(FileOf(f.item))
             /\ Len(files[FileOf(f.item)]) <= f.nchunks

C20_Witness ==
    \E w \in Workers :
       /\ frame[w].pc = "return"
       /\ Message(frame[w].ret) = "Downloaded"
       /\ frame[w].gets = 3
       /\ frame[w].ret[4] = MaxChunkSize
       /\ added = 3 * MaxChunkSize
       /\ files[FileOf(frame[w].item)] = <<MaxChunkSize>>

====
